---- MODULE Spec2Model ----
(***************************************************************************)
(* Label generation engine of LabelGenerator (src/app.py): header          *)
(* normalization, order aggregation, label card sequencing, grid layout    *)
(* with pagination, and the dine-in summary page.                          *)
(*                                                                         *)
(* Text is a sequence of one-character strings, so that strip(), lower()   *)
(* and the ordinal comparison of names are computed, not assumed.          *)
(* Optional[int] is a sequence of length 0 (None) or 1.                    *)
(***************************************************************************)
EXTENDS Integers, Sequences, FiniteSets, TLC

\* ------------------------------------------------------------------ bounds
\* rows of an order table drawn from the cell pools
MaxRows == 2
\* columns of a table whose headers are drawn from the header pool
MaxCols == 4
\* names of a generated table (one row per name, equal carry-out)
MaxScenarioNames == 31
\* carry-out of each name of a generated table
MaxScenarioCarry == 3

\* --------------------------------------------------------------- constants
LABEL_COLUMNS == 3
LABEL_ROWS == 10

\* -------------------------------------------------------------------- text
UpperCase ==
  <<"A","B","C","D","E","F","G","H","I","J","K","L","M",
    "N","O","P","Q","R","S","T","U","V","W","X","Y","Z">>
LowerCase ==
  <<"a","b","c","d","e","f","g","h","i","j","k","l","m",
    "n","o","p","q","r","s","t","u","v","w","x","y","z">>
Digits == <<"0","1","2","3","4","5","6","7","8","9">>

\* printable ASCII in code point order, " " (32) to "~" (126); the grave
\* accent (96) cannot be written in a TLA+ string and is held by a placeholder
Printable ==
  <<" ","!","\"","#","$","%","&","'","(",")","*","+",",","-",".","/">>
  \o Digits \o <<":",";","<","=",">","?","@">> \o UpperCase
  \o <<"[","\\","]","^","_","grave">> \o LowerCase \o <<"{","|","}","~">>

\* A character that cannot be written in a TLA+ string is named by its code
\* point, "U+000B"; such a name is one character of a text.
\* The characters for which str.isspace() holds, which str.strip() removes
Whitespace ==
  {"\t", "\n", "U+000B", "\f", "\r", "U+001C", "U+001D", "U+001E", "U+001F",
   " ", "U+0085", "U+00A0", "U+1680", "U+2000", "U+2001", "U+2002", "U+2003",
   "U+2004", "U+2005", "U+2006", "U+2007", "U+2008", "U+2009", "U+200A",
   "U+2028", "U+2029", "U+202F", "U+205F", "U+3000"}

\* the blanks the numeric parser skips (isspace of the C locale)
AsciiSpace == {" ", "\t", "\n", "U+000B", "\f", "\r"}

\* code points of the characters outside the printable range
NamedPoints ==
  { <<"\t", 9>>, <<"\n", 10>>, <<"U+000B", 11>>, <<"\f", 12>>, <<"\r", 13>>,
    <<"U+001C", 28>>, <<"U+001D", 29>>, <<"U+001E", 30>>, <<"U+001F", 31>>,
    <<"U+0085", 133>>, <<"U+00A0", 160>>, <<"U+1680", 5760>>,
    <<"U+2000", 8192>>, <<"U+2001", 8193>>, <<"U+2002", 8194>>,
    <<"U+2003", 8195>>, <<"U+2004", 8196>>, <<"U+2005", 8197>>,
    <<"U+2006", 8198>>, <<"U+2007", 8199>>, <<"U+2008", 8200>>,
    <<"U+2009", 8201>>, <<"U+200A", 8202>>, <<"U+2028", 8232>>,
    <<"U+2029", 8233>>, <<"U+202F", 8239>>, <<"U+205F", 8287>>,
    <<"U+3000", 12288>> }

\* code points
CodePoints ==
  [c \in {Printable[i] : i \in 1..Len(Printable)} \cup {p[1] : p \in NamedPoints} |->
     IF \E p \in NamedPoints : p[1] = c
     THEN (CHOOSE p \in NamedPoints : p[1] = c)[2]
     ELSE 31 + (CHOOSE i \in 1..Len(Printable) : Printable[i] = c)]

\* code point of a character
Ord(c) == CodePoints[c]

\* str.lower(): an upper-case letter becomes the lower-case letter at its
\* place in the alphabet
LowerOf ==
  [c \in {UpperCase[i] : i \in 1..Len(UpperCase)} |->
     LowerCase[CHOOSE i \in 1..Len(UpperCase) : UpperCase[i] = c]]

lower(s) == [i \in 1..Len(s) |-> IF s[i] \in DOMAIN LowerOf THEN LowerOf[s[i]] ELSE s[i]]

\* str.strip()
strip(s) ==
  LET keep == {i \in 1..Len(s) : s[i] \notin Whitespace}
  IN IF keep = {} THEN <<>>
     ELSE SubSeq(s, CHOOSE i \in keep : \A j \in keep : i <= j,
                    CHOOSE i \in keep : \A j \in keep : j <= i)

\* a < b for Python str (code point order, a proper prefix is smaller)
StrLess(a, b) ==
  \E k \in 1..(Len(a) + 1) :
    /\ k <= Len(b)
    /\ \A j \in 1..(k - 1) : a[j] = b[j]
    /\ \/ k = Len(a) + 1
       \/ Ord(a[k]) < Ord(b[k])

\* ---------------------------------------------------------------- options
None == <<>>
Some(x) == <<x>>

\* ------------------------------------------------------- schema normalizer
S_name == <<"n","a","m","e">>
S_carry_out == <<"c","a","r","r","y","_","o","u","t">>
S_dine_in == <<"d","i","n","e","_","i","n">>

\* the alias table, in the dict's insertion order
column_aliases ==
  << [alias |-> <<"n","a","m","e">>, field |-> S_name],
     [alias |-> <<"c","u","s","t","o","m","e","r">>, field |-> S_name],
     [alias |-> <<"c","a","r","r","y"," ","o","u","t">>, field |-> S_carry_out],
     [alias |-> <<"c","a","r","r","y","o","u","t">>, field |-> S_carry_out],
     [alias |-> <<"c","a","r","r","y","-","o","u","t">>, field |-> S_carry_out],
     [alias |-> <<"d","i","n","e"," ","i","n">>, field |-> S_dine_in],
     [alias |-> <<"d","i","n","e","-","i","n">>, field |-> S_dine_in],
     [alias |-> <<"d","i","n","e","i","n">>, field |-> S_dine_in] >>

RequiredFields == <<S_name, S_carry_out, S_dine_in>>

\* {col.strip().lower(): col for col in columns}: a later column replaces an
\* earlier one with the same key
lookup(hdrs) ==
  LET key(i) == lower(strip(hdrs[i]))
      keys == {key(i) : i \in 1..Len(hdrs)}
  IN [k \in keys |->
        hdrs[CHOOSE i \in 1..Len(hdrs) :
               key(i) = k /\ \A j \in 1..Len(hdrs) : key(j) = k => j <= i]]

\* the loop over the alias table: a field takes the column of the first alias,
\* in table order, that is a key of the lookup; later aliases of a field that
\* is already in rename_map are skipped
first_alias(lk, f) ==
  CHOOSE k \in 1..Len(column_aliases) :
    /\ column_aliases[k].field = f
    /\ column_aliases[k].alias \in DOMAIN lk
    /\ \A j \in 1..(k - 1) :
         ~(column_aliases[j].field = f /\ column_aliases[j].alias \in DOMAIN lk)

rename_map(hdrs) ==
  LET lk == lookup(hdrs)
      resolved == {column_aliases[k].field : k \in
                     {j \in 1..Len(column_aliases) :
                        column_aliases[j].alias \in DOMAIN lk}}
  IN [f \in resolved |-> lk[column_aliases[first_alias(lk, f)].alias]]

\* the message names the first unresolved field only
missing_first_only(hdrs) ==
  LET all == SelectSeq(RequiredFields, LAMBDA f : f \notin DOMAIN rename_map(hdrs))
  IN SubSeq(all, 1, IF all = <<>> THEN 0 ELSE 1)

\* the canonical fields no header resolves, in the order name, carry_out, dine_in
missing(hdrs) ==
  SelectSeq(RequiredFields, LAMBDA f : f \notin DOMAIN rename_map(hdrs))

\* dataframe.rename(columns={rename_map[key]: key ...}): the column labels after
\* the rename; a column that is not renamed keeps its label
rename(hdrs) ==
  LET rm == rename_map(hdrs)
  IN [i \in 1..Len(hdrs) |->
        IF \E f \in DOMAIN rm : rm[f] = hdrs[i]
        THEN CHOOSE f \in DOMAIN rm : rm[f] = hdrs[i]
        ELSE hdrs[i]]

\* -------------------------------------------------------------- input cells
NamePool == { <<"A","l">>, <<"a","l">>, <<"U+00A0","B","o"," ">>, <<" ">> }
CarryPool ==
  { <<"\f","3">>, <<"-","2">>, <<"2","7","e","-","1">>, <<"x">>,
    <<"i","n","f">> }
DinePool == { <<"0">>, <<"2">> }

\* the largest int64
Int64Max ==
  <<"9","2","2","3","3","7","2","0","3","6","8","5","4","7","7","5","8","0","7">>

\* quantities at the limits of double and of int64: more digits than a double
\* holds, with a point, with an exponent and plain; the largest double and its
\* neighbour; an exponent of more digits than the parser reads and one beyond
\* int; leading zeros; the largest int64 and the largest uint64; values
\* beyond int64 of either sign
LimitPool ==
  { <<"9","0","0","7","1","9","9","2","5","4","7","4","0","9","9","3",".","0">>,
    <<"9","0","0","7","1","9","9","2","5","4","7","4","0","9","9","3">>,
    <<"4","7","0","0","0","0","0","0","0","1","e","9">>,
    <<"1",".","7","9","7","6","9","3","1","3","4","8","6","2","3","1","5","8",
      "e","3","0","8">>,
    <<"1",".","7","9","7","6","9","3","1","3","4","8","6","2","3","1","5","7",
      "e","3","0","8">>,
    <<"1","e","0","0","0","0","0","0","0","0","0","0","0","0","0","0","0","0",
      "0","0","0","2">>,
    <<"1","e","4","2","9","4","9","6","7","2","9","6">>,
    <<"0","0","0","0","0","0","0","0","0","0","0","0","0","0","0","0","0","0",
      "0","5",".","0">>,
    Int64Max,
    <<"1","8","4","4","6","7","4","4","0","7","3","7","0","9","5","5","1","6",
      "1","5">>,
    <<"1","e","1","9">>,
    <<"-","1","e","1","9">>,
    <<"-","1">>,
    <<"1">>,
    <<"x">> }


\* ------------------------------------------------------ numeric conversion
\* what the build's conversion of an out-of-range float to int64 yields: the
\* smallest int64 ("min") or the nearest bound ("max")
VARIABLE cast_overflow

\* ------------------------------------------------------------ wide integers
\* A natural number of any size is the sequence of its digits in base 2^15,
\* lowest digit first, without a highest digit 0; <<>> is 0.
Base == 32768
LimbBits == 15

Limb(a, i) == IF i <= Len(a) THEN a[i] ELSE 0

\* a without its highest zeros
Trim(a) ==
  SubSeq(a, 1, IF \A i \in 1..Len(a) : a[i] = 0 THEN 0
               ELSE CHOOSE i \in 1..Len(a) :
                      a[i] # 0 /\ \A j \in (i + 1)..Len(a) : a[j] = 0)

\* the wide integer of n, 0 <= n < 2^30
BigOf(n) == Trim(<<n % Base, n \div Base>>)

\* the integer of a wide integer
RECURSIVE IntOf(_)
IntOf(a) == IF a = <<>> THEN 0 ELSE a[1] + Base * IntOf(Tail(a))

\* the carry into digit i of a + b: a lower digit overflows and every digit
\* between passes the carry on
Carry(a, b, i) ==
  IF \E j \in 1..(i - 1) :
       /\ Limb(a, j) + Limb(b, j) >= Base
       /\ \A t \in (j + 1)..(i - 1) : Limb(a, t) + Limb(b, t) = Base - 1
  THEN 1 ELSE 0

BigAdd(a, b) ==
  Trim([i \in 1..((IF Len(a) > Len(b) THEN Len(a) ELSE Len(b)) + 1) |->
          (Limb(a, i) + Limb(b, i) + Carry(a, b, i)) % Base])

\* the borrow from digit i of a - b
Borrow(a, b, i) ==
  IF \E j \in 1..(i - 1) :
       /\ Limb(a, j) < Limb(b, j)
       /\ \A t \in (j + 1)..(i - 1) : Limb(a, t) = Limb(b, t)
  THEN 1 ELSE 0

\* a - b for a >= b
BigSub(a, b) ==
  Trim([i \in 1..Len(a) |->
          (a[i] - Limb(b, i) - Borrow(a, b, i) + Base) % Base])

\* a * k + c for 0 <= k <= 2^15 and 0 <= c < 2^15: the low halves of the
\* digit products, plus c and the high halves one place up
MulAdd(a, k, c) ==
  BigAdd([i \in 1..Len(a) |-> (a[i] * k) % Base],
         <<c>> \o [i \in 1..Len(a) |-> (a[i] * k) \div Base])

BigLess(a, b) ==
  \/ Len(a) < Len(b)
  \/ /\ Len(a) = Len(b)
     /\ \E i \in 1..Len(a) :
          a[i] < b[i] /\ \A j \in (i + 1)..Len(a) : a[j] = b[j]

\* a * b, one digit of b at a time
RECURSIVE BigMul(_, _)
BigMul(a, b) ==
  IF b = <<>> THEN <<>>
  ELSE CHOOSE p \in {BigAdd(MulAdd(a, b[1], 0), Trim(<<0>> \o rest)) :
                       rest \in {BigMul(a, Tail(b))}} : TRUE

\* a * 2^n
ShiftLeft(a, n) ==
  IF a = <<>> THEN <<>>
  ELSE [i \in 1..(n \div LimbBits) |-> 0] \o MulAdd(a, 2^(n % LimbBits), 0)

\* a div 2^n
ShiftRight(a, n) ==
  Trim([i \in 1..(Len(a) - (n \div LimbBits)) |->
          (a[i + (n \div LimbBits)] \div 2^(n % LimbBits))
          + (Limb(a, i + (n \div LimbBits) + 1) % 2^(n % LimbBits))
            * 2^(LimbBits - (n % LimbBits))])

\* a mod 2^n is not 0
LowBits(a, n) ==
  \/ \E i \in 1..(n \div LimbBits) : Limb(a, i) # 0
  \/ Limb(a, (n \div LimbBits) + 1) % 2^(n % LimbBits) # 0

\* a mod 2^n
ModPow2(a, n) ==
  Trim([i \in 1..((n \div LimbBits) + 1) |->
          IF i <= n \div LimbBits THEN Limb(a, i)
          ELSE Limb(a, i) % 2^(n % LimbBits)])

\* the number of binary digits of a
BitLen(a) ==
  IF a = <<>> THEN 0
  ELSE LimbBits * (Len(a) - 1)
       + (CHOOSE k \in 1..LimbBits : 2^(k - 1) <= a[Len(a)] /\ a[Len(a)] < 2^k)

\* binary digit i of a, the lowest being digit 1
Bit(a, i) == (Limb(a, ((i - 1) \div LimbBits) + 1) \div 2^((i - 1) % LimbBits)) % 2

\* One step of the long division by b, whose highest digit is at least
\* Base / 2: cur is the remainder so far followed by the next digit of the
\* dividend, and its quotient by b is the estimate from the two highest
\* digits or at most 2 less (Knuth, The Art of Computer Programming, 4.3.1 D)
Estimate(cur, b) ==
  IF (Limb(cur, Len(b) + 1) * Base + Limb(cur, Len(b))) \div b[Len(b)] < Base
  THEN (Limb(cur, Len(b) + 1) * Base + Limb(cur, Len(b))) \div b[Len(b)]
  ELSE Base - 1

QuotientDigit(cur, b) ==
  CHOOSE q \in (Estimate(cur, b) - 2)..Estimate(cur, b) :
    /\ q >= 0
    /\ ~BigLess(cur, MulAdd(b, q, 0))
    /\ BigLess(cur, MulAdd(b, q + 1, 0))

\* the quotient gains the digit q, and the remainder is cur - b * q
DivStep(prev, cur, b) ==
  CHOOSE res \in {[q |-> <<q>> \o prev.q, r |-> BigSub(cur, MulAdd(b, q, 0))] :
                    q \in {QuotientDigit(cur, b)}} : TRUE

\* quotient and remainder of the digits i.. of a
RECURSIVE DivFrom(_, _, _)
DivFrom(a, b, i) ==
  IF i > Len(a) THEN [q |-> <<>>, r |-> <<>>]
  ELSE CHOOSE res \in
         {DivStep(prev, Trim(<<a[i]>> \o prev.r), b) :
            prev \in {DivFrom(a, b, i + 1)}} : TRUE

\* the shift that brings the highest digit of b to Base / 2 or more
Normalizer(b) == LimbBits * Len(b) - BitLen(b)

\* quotient and remainder of a by b # 0: those of a and b shifted alike,
\* the remainder shifted back
BigDivMod(a, b) ==
  CHOOSE res \in
    {[q |-> Trim(dm.q), r |-> ShiftRight(dm.r, Normalizer(b))] :
       dm \in {CHOOSE d \in {DivFrom(u, v, 1) : u \in {ShiftLeft(a, Normalizer(b))},
                                                 v \in {ShiftLeft(b, Normalizer(b))}} :
                 TRUE}} : TRUE

\* the wide integer of a text of decimal digits
RECURSIVE FromDigits(_)
FromDigits(s) ==
  IF s = <<>> THEN <<>>
  ELSE CHOOSE n \in {MulAdd(before, 10, Ord(s[Len(s)]) - 48) :
                       before \in {FromDigits(SubSeq(s, 1, Len(s) - 1))}} : TRUE

\* the decimal digits of a
RECURSIVE ToDigits(_)
ToDigits(a) ==
  IF Len(a) <= 1 /\ Limb(a, 1) < 10 THEN <<Digits[Limb(a, 1) + 1]>>
  ELSE CHOOSE t \in {ToDigits(dm.q) \o <<Digits[Limb(dm.r, 1) + 1]>> :
                       dm \in {BigDivMod(a, <<10>>)}} : TRUE

\* ------------------------------------------------------------------ doubles
\* The magnitude of a double: m * 2^e for a wide integer m, or infinity. The
\* sign is kept beside it; rounding is to nearest, ties to even.
MantissaBits == 53
MinExponent == 0 - 1074
MaxExponent == 1024

Finite(m, e) == [inf |-> FALSE, m |-> m, e |-> e]
Infinite == [inf |-> TRUE, m |-> <<>>, e |-> 0]
Zero == Finite(<<>>, 0)

\* a value of 2^1024 or more is infinity
Checked(m, e) == IF BitLen(m) + e > MaxExponent THEN Infinite ELSE Finite(m, e)

\* the binary digits of n that a double at exponent e cannot hold
Dropped(n, e) ==
  IF BitLen(n) - MantissaBits >= MinExponent - e THEN BitLen(n) - MantissaBits
  ELSE MinExponent - e

\* n without its d lowest digits, rounded; inexact says that n itself was cut
Nearest(n, d, inexact) ==
  IF Bit(n, d) = 1 /\ (inexact \/ LowBits(n, d - 1) \/ Bit(n, d + 1) = 1)
  THEN BigAdd(ShiftRight(n, d), <<1>>)
  ELSE ShiftRight(n, d)

\* the double nearest to n * 2^e
Round(n, e, inexact) ==
  IF n = <<>> THEN Zero
  ELSE IF Dropped(n, e) <= 0 THEN Checked(n, e)
  ELSE Checked(Nearest(n, Dropped(n, e), inexact), e + Dropped(n, e))

\* x * y; v and w are the values of the operands
Mul(x, y) ==
  CHOOSE p \in
    {IF v.inf \/ w.inf THEN Infinite
     ELSE Round(BigMul(v.m, w.m), v.e + w.e, FALSE) : v \in {x}, w \in {y}} : TRUE

\* x + y, both brought to the lower exponent
Add(x, y) ==
  CHOOSE p \in
    {IF v.inf \/ w.inf THEN Infinite
     ELSE Round(BigAdd(ShiftLeft(v.m, v.e - lo), ShiftLeft(w.m, w.e - lo)),
                lo, FALSE) :
       v \in {x}, w \in {y}, lo \in {IF x.e <= y.e THEN x.e ELSE y.e}} : TRUE

\* the quotient is taken to two digits more than a double holds
QuotientShift(x, y) ==
  IF MantissaBits + 2 + BitLen(y.m) - BitLen(x.m) > 0
  THEN MantissaBits + 2 + BitLen(y.m) - BitLen(x.m)
  ELSE 0

\* x / y for finite x and finite y > 0: the quotient of the shifted
\* mantissas, rounded; a remainder says that the quotient was cut
Div(x, y) ==
  CHOOSE p \in
    {IF v.m = <<>> THEN Zero
     ELSE Round(dm.q, v.e - QuotientShift(v, w) - w.e, dm.r # <<>>) :
       v \in {x}, w \in {y},
       dm \in {IF x.m = <<>> THEN [q |-> <<>>, r |-> <<>>]
               ELSE BigDivMod(ShiftLeft(x.m, QuotientShift(x, y)), y.m)}} : TRUE

RECURSIVE Pow5(_)
Pow5(k) ==
  IF k < 7 THEN <<5^k>>
  ELSE IF k < 27 THEN MulAdd(Pow5(k - 6), 5^6, 0)
  ELSE CHOOSE p \in {BigMul(p26, Pow5(26)) : p26 \in {Pow5(k - 26)}} : TRUE

\* the table e[] of the parser: the doubles 1e0 .. 1e308
E10(k) == Round(Pow5(k), k, FALSE)

\* the integer part
Truncate(x) ==
  IF x.e >= 0 THEN ShiftLeft(x.m, x.e) ELSE ShiftRight(x.m, 0 - x.e)

\* ------------------------------------------------------- the numeric parser
DigitSet == {Digits[i] : i \in 1..Len(Digits)}

\* the character at position p, "" past the end
CharAt(s, p) == IF p <= Len(s) THEN s[p] ELSE ""

\* the first position from p on whose character is not in cs
SkipWhile(s, p, cs) ==
  IF \E i \in p..Len(s) : s[i] \notin cs
  THEN CHOOSE i \in p..Len(s) : s[i] \notin cs /\ \A j \in p..(i - 1) : s[j] \in cs
  ELSE Len(s) + 1

MaxDigits == 17

\* int arithmetic of the parser: two's complement of 32 binary digits
MaxInt32 == 2147483647
MinInt32 == (0 - 1073741824) * 2

\* the int of a wide integer
Int32Of(a) ==
  (IF Bit(a, 32) = 1 THEN MinInt32 ELSE 0)
  + Limb(a, 1) + Base * Limb(a, 2) + Base * Base * (Limb(a, 3) % 2)

Add32(a, b) ==
  IF a >= 0 /\ b > MaxInt32 - a THEN (a + MinInt32) + (b + MinInt32)
  ELSE IF a < 0 /\ b < MinInt32 - a THEN (a - MinInt32) + (b - MinInt32)
  ELSE a + b

\* number = number * 10. + digit over the digits kept
RECURSIVE Accumulate(_)
Accumulate(ds) ==
  IF ds = <<>> THEN Zero
  ELSE CHOOSE number \in
         {Add(Mul(before, Finite(<<10>>, 0)),
              Finite(BigOf(Ord(ds[Len(ds)]) - 48), 0)) :
            before \in {Accumulate(SubSeq(ds, 1, Len(ds) - 1))}} : TRUE

\* the positions of precise_xstrtod in the text s
SignAt(s) == SkipWhile(s, 1, AsciiSpace)
Negative(s) == CharAt(s, SignAt(s)) = "-"
IntegerAt(s) == SignAt(s) + (IF CharAt(s, SignAt(s)) \in {"+", "-"} THEN 1 ELSE 0)
PointAt(s) == SkipWhile(s, IntegerAt(s), DigitSet)
HasPoint(s) == CharAt(s, PointAt(s)) = "."
ExponentAt(s) ==
  IF HasPoint(s) THEN SkipWhile(s, PointAt(s) + 1, DigitSet) ELSE PointAt(s)
HasExponent(s) == CharAt(s, ExponentAt(s)) \in {"e", "E"}
ExponentDigitsAt(s) ==
  ExponentAt(s) + 1
  + (IF CharAt(s, ExponentAt(s) + 1) \in {"+", "-"} THEN 1 ELSE 0)
ExponentEnd(s) ==
  IF SkipWhile(s, ExponentDigitsAt(s), DigitSet) <= ExponentDigitsAt(s) + MaxDigits
  THEN SkipWhile(s, ExponentDigitsAt(s), DigitSet)
  ELSE ExponentDigitsAt(s) + MaxDigits
\* where the number ends; an e or E without digits is not consumed
NumberEnd(s) ==
  IF HasExponent(s) /\ ExponentEnd(s) > ExponentDigitsAt(s) THEN ExponentEnd(s)
  ELSE ExponentAt(s)

IntegerDigits(s) == SubSeq(s, IntegerAt(s), PointAt(s) - 1)
FractionDigits(s) ==
  IF HasPoint(s) THEN SubSeq(s, PointAt(s) + 1, ExponentAt(s) - 1) ELSE <<>>
KeptInteger(s) ==
  IF Len(IntegerDigits(s)) <= MaxDigits THEN IntegerDigits(s)
  ELSE SubSeq(IntegerDigits(s), 1, MaxDigits)
KeptFraction(s) ==
  IF Len(FractionDigits(s)) <= MaxDigits - Len(KeptInteger(s)) THEN FractionDigits(s)
  ELSE SubSeq(FractionDigits(s), 1, MaxDigits - Len(KeptInteger(s)))

\* the exponent after the mantissa: one for each integer digit not kept, less
\* one for each fraction digit kept
MantissaExponent(s) ==
  (Len(IntegerDigits(s)) - Len(KeptInteger(s))) - Len(KeptFraction(s))

\* n = n * 10 + digit in int
ExponentNumber(s) ==
  Int32Of(FromDigits(SubSeq(s, ExponentDigitsAt(s), ExponentEnd(s) - 1)))

Exponent(s) ==
  IF ~HasExponent(s) THEN MantissaExponent(s)
  ELSE IF CharAt(s, ExponentAt(s) + 1) = "-"
  THEN Add32(MantissaExponent(s),
             IF ExponentNumber(s) = MinInt32 THEN MinInt32 ELSE 0 - ExponentNumber(s))
  ELSE Add32(MantissaExponent(s), ExponentNumber(s))

\* number scaled by the power of ten
Scaled(number, exponent) ==
  IF exponent > 0 THEN Mul(number, E10(exponent))
  ELSE IF exponent < 0 - 616 THEN Zero
  ELSE IF exponent < 0 - 308
  THEN Div(Div(number, E10(0 - 308 - exponent)), E10(308))
  ELSE Div(number, E10(0 - exponent))

\* the double precise_xstrtod returns
precise_xstrtod(s) == Scaled(Accumulate(KeptInteger(s) \o KeptFraction(s)), Exponent(s))

\* to_double: no error, and the whole text consumed
to_double(s) ==
  /\ KeptInteger(s) \o KeptFraction(s) # <<>>
  /\ SkipWhile(s, NumberEnd(s), AsciiSpace) = Len(s) + 1
  /\ Exponent(s) <= 308
  /\ Exponent(s) > 0 => ~precise_xstrtod(s).inf

maybe_int(s) == ~HasPoint(s) /\ ~HasExponent(s)

\* ----------------------------------------------------------------- integers
\* An integer of Python or of int64: a sign and a wide magnitude.
Signed(neg, mag) == [neg |-> neg /\ mag # <<>>, mag |-> mag]

IntZero == Signed(FALSE, <<>>)

\* the integer n, -2^30 < n < 2^30
Small(n) == Signed(n < 0, BigOf(IF n < 0 THEN 0 - n ELSE n))

Positive(x) == ~x.neg /\ x.mag # <<>>

\* x + y
Plus(x, y) ==
  IF x.neg = y.neg THEN Signed(x.neg, BigAdd(x.mag, y.mag))
  ELSE IF BigLess(x.mag, y.mag) THEN Signed(y.neg, BigSub(y.mag, x.mag))
  ELSE Signed(x.neg, BigSub(x.mag, y.mag))

\* x // 2 and x % 2 of Python
floordiv2(x) ==
  IF x.neg THEN Signed(TRUE, ShiftRight(BigAdd(x.mag, <<1>>), 1))
  ELSE Signed(FALSE, ShiftRight(x.mag, 1))

mod2(x) == IF Bit(x.mag, 1) = 1 THEN Small(1) ELSE IntZero

\* str(n) of a Python int
str(x) == (IF x.neg THEN <<"-">> ELSE <<>>) \o ToDigits(x.mag)

Two63 == ShiftLeft(<<1>>, 63)
Two64 == ShiftLeft(<<1>>, 64)

\* int64 arithmetic keeps the low 64 binary digits: u is x modulo 2^64, and
\* the result is the int64 with the binary digits of u
Wrap64(x) ==
  CHOOSE w \in
    {IF BigLess(u, Two63) THEN Signed(FALSE, u) ELSE Signed(TRUE, BigSub(Two64, u)) :
       u \in {IF x.neg /\ ModPow2(x.mag, 64) # <<>>
              THEN BigSub(Two64, ModPow2(x.mag, 64))
              ELSE ModPow2(x.mag, 64)}} : TRUE

\* --------------------------------------------------------- numeric coercion
\* the spellings of infinity floatify accepts, compared without case
InfWords ==
  { <<"i","n","f">>, <<"i","n","f","i","n","i","t","y">> }

\* the text after an optional sign
Unsigned(s) == IF s # <<>> /\ s[1] \in {"+", "-"} THEN Tail(s) ELSE s

\* a cell that is no number: errors="coerce" makes it NaN
NaN ==
  [kind |-> "null", neg |-> FALSE, fval |-> Zero, maybe_int |-> FALSE,
   as_int |-> <<>>]

Inf(neg) ==
  [kind |-> "inf", neg |-> neg, fval |-> Infinite, maybe_int |-> FALSE,
   as_int |-> <<>>]

\* a parsed cell: its double, and int(val) when the text is digits only
Number(s) ==
  [kind |-> "number", neg |-> Negative(s), fval |-> precise_xstrtod(s),
   maybe_int |-> maybe_int(s),
   as_int |-> IF maybe_int(s) THEN FromDigits(IntegerDigits(s)) ELSE <<>>]

\* floatify of one cell of an object column
floatify(s) ==
  IF to_double(s) THEN Number(s)
  ELSE IF lower(Unsigned(s)) \in InfWords THEN Inf(s[1] = "-")
  ELSE NaN

\* floatify of the cells the input tables are made of
Parsed ==
  [s \in CarryPool \cup DinePool \cup LimitPool \cup {<<Digits[i]>> : i \in 1..Len(Digits)} |-> floatify(s)]

cell_of(s) == IF s \in DOMAIN Parsed THEN Parsed[s] ELSE floatify(s)

\* the cell is an integer below 0 that int64 holds
sint_(c) ==
  c.kind = "number" /\ c.maybe_int /\ c.neg /\ c.as_int # <<>>
  /\ ~BigLess(Two63, c.as_int)

\* the cell is an integer above int64 that uint64 holds
uint_(c) ==
  c.kind = "number" /\ c.maybe_int /\ ~(c.neg /\ c.as_int # <<>>)
  /\ ~BigLess(c.as_int, Two63) /\ BigLess(c.as_int, Two64)

\* the cell is an integer that neither int64 nor uint64 holds
out_of_range(c) ==
  c.kind = "number" /\ c.maybe_int
  /\ IF c.neg THEN BigLess(Two63, c.as_int) ELSE ~BigLess(c.as_int, Two64)

\* the column is returned as float64: a cell is NaN or an infinity, has a
\* point or an exponent, is out of range, or the column mixes integers below
\* 0 with integers above int64
float_(cs) ==
  \/ \E r \in 1..Len(cs) :
       cs[r].kind # "number" \/ ~cs[r].maybe_int \/ out_of_range(cs[r])
  \/ /\ \E r \in 1..Len(cs) : uint_(cs[r])
     /\ \E r \in 1..Len(cs) : sint_(cs[r])

dtype_of(cs) ==
  IF float_(cs) THEN "float64"
  ELSE IF \E r \in 1..Len(cs) : uint_(cs[r]) THEN "uint64"
  ELSE "int64"

\* pd.to_numeric(column, errors="coerce"): the dtype of the column and its
\* cells
to_numeric(col) ==
  CHOOSE res \in {[dtype |-> dtype_of(cs), cells |-> cs] :
                    cs \in {[r \in 1..Len(col) |-> cell_of(col[r])]}} : TRUE

\* the integer part of a double is an int64
Fits(c) ==
  \/ BigLess(Truncate(c.fval), Two63)
  \/ c.neg /\ Truncate(c.fval) = Two63

\* .fillna(0).astype(int) of one cell of a column without an infinity: in a
\* float64 column NaN is 0, a fraction is cut towards zero and a value beyond
\* int64 is what the build's conversion yields; a uint64 column keeps its
\* 64 binary digits
astype_int(dtype, c) ==
  IF dtype = "float64"
  THEN IF c.kind = "null" THEN IntZero
       ELSE IF Fits(c) THEN Signed(c.neg, Truncate(c.fval))
       ELSE IF cast_overflow = "max" /\ ~c.neg
       THEN Signed(FALSE, BigSub(Two63, <<1>>))
       ELSE Signed(TRUE, Two63)
  ELSE IF dtype = "uint64" THEN Wrap64(Signed(FALSE, c.as_int))
  ELSE Signed(c.neg, c.as_int)

\* .clip(lower=0)
clip(n) == IF n.neg THEN IntZero ELSE n

\* the coerced values of a column
coerce(col) ==
  CHOOSE res \in
    {[r \in 1..Len(col) |-> clip(astype_int(num.dtype, num.cells[r]))] :
       num \in {to_numeric(col)}} : TRUE

\* astype(int) raises on a column that holds an infinity
non_finite(col) == \E r \in 1..Len(col) : cell_of(col[r]).kind = "inf"

\* --------------------------------------------------------- order aggregator
NoError == [type |-> "none", missing |-> <<>>]
ValueError(fields) == [type |-> "ValueError", missing |-> fields]
AttributeError == [type |-> "AttributeError", missing |-> <<>>]
TypeError == [type |-> "TypeError", missing |-> <<>>]
IntCastingNaNError == [type |-> "IntCastingNaNError", missing |-> <<>>]

\* the positions of the columns labelled f after the rename
Labelled(columns, f) == {i \in 1..Len(columns) : columns[i] = f}

\* normalized[f] is a single column only when one column carries the label
Col(columns, f) == CHOOSE i \in Labelled(columns, f) : TRUE

\* the rows with the name trimmed
trimmed(columns, rows) ==
  [r \in 1..Len(rows) |->
     [name |-> strip(rows[r][Col(columns, S_name)]),
      carry_out |-> rows[r][Col(columns, S_carry_out)],
      dine_in |-> rows[r][Col(columns, S_dine_in)]]]

\* normalized[normalized["name"] != ""]
named(columns, rows) == SelectSeq(trimmed(columns, rows), LAMBDA r : r.name # <<>>)

\* the quantity column q of the kept rows
column(kept, q) ==
  [r \in 1..Len(kept) |-> IF q = "carry_out" THEN kept[r].carry_out ELSE kept[r].dine_in]

\* the exception the column operations raise, in statement order: selecting a
\* label that two columns carry yields a frame, which has neither .str nor a
\* numeric conversion; astype(int) refuses an infinity
prepare_error(columns, kept) ==
  IF Cardinality(Labelled(columns, S_name)) > 1 THEN AttributeError
  ELSE IF Cardinality(Labelled(columns, S_carry_out)) > 1 THEN TypeError
  ELSE IF non_finite(column(kept, "carry_out")) THEN IntCastingNaNError
  ELSE IF Cardinality(Labelled(columns, S_dine_in)) > 1 THEN TypeError
  ELSE IF non_finite(column(kept, "dine_in")) THEN IntCastingNaNError
  ELSE NoError

\* the kept rows with both quantity columns coerced
coerced(kept) ==
  CHOOSE res \in
    {[r \in 1..Len(kept) |->
        [name |-> kept[r].name, carry_out |-> carry[r], dine_in |-> dine[r]]] :
       carry \in {coerce(column(kept, "carry_out"))},
       dine \in {coerce(column(kept, "dine_in"))}} : TRUE

\* .sort_values("name") with ascending=False
RECURSIVE sort_values_descending(_)
sort_values_descending(names) ==
  IF names = {} THEN <<>>
  ELSE LET m == CHOOSE x \in names : \A y \in names \ {x} : StrLess(y, x)
       IN <<m>> \o sort_values_descending(names \ {m})

\* .sort_values("name"): the group keys in ascending order
RECURSIVE sort_values(_)
sort_values(names) ==
  IF names = {} THEN <<>>
  ELSE LET m == CHOOSE x \in names : \A y \in names \ {x} : StrLess(x, y)
       IN <<m>> \o sort_values(names \ {m})

\* "sum" of one group: the int64 sum of q over the first k rows named n
RECURSIVE group_sum(_, _, _, _)
group_sum(rs, n, q, k) ==
  IF k = 0 THEN IntZero
  ELSE IF rs[k].name # n THEN group_sum(rs, n, q, k - 1)
  ELSE CHOOSE total \in
         {Wrap64(Plus(before, IF q = "carry_out" THEN rs[k].carry_out
                              ELSE rs[k].dine_in)) :
            before \in {group_sum(rs, n, q, k - 1)}} : TRUE

\* groupby("name").agg(sum).sort_values("name")
aggregate(rs) ==
  CHOOSE agg \in
    {[i \in 1..Len(names) |->
        [name |-> names[i],
         carry_out |-> group_sum(rs, names[i], "carry_out", Len(rs)),
         dine_in |-> group_sum(rs, names[i], "dine_in", Len(rs))]] :
       names \in {sort_values({rs[r].name : r \in 1..Len(rs)})}} : TRUE

\* ----------------------------------------------------- label card sequencer
LabelCard(name, count, doubles, singles) ==
  [name |-> name, count |-> count, doubles |-> doubles, singles |-> singles]

PackSummaryName == <<"P","a","c","k"," ","S","u","m","m","a","r","y">>

\* the quotient alone, forgetting the odd unit
required_label_count_quotient(carry_out_total) ==
  IF ~Positive(carry_out_total) THEN IntZero ELSE floordiv2(carry_out_total)

_required_label_count(carry_out_total) ==
  IF ~Positive(carry_out_total) THEN IntZero
  ELSE Plus(floordiv2(carry_out_total), mod2(carry_out_total))

\* one pass of the loop over the aggregate: the cards of one name
cards_of(order) ==
  IF ~Positive(order.carry_out) THEN <<>>
  ELSE <<LabelCard(order.name, Some(order.carry_out), None, None)>>
       \o [i \in 1..(IntOf(_required_label_count(order.carry_out).mag) - 1) |->
             LabelCard(order.name, None, None, None)]

\* the cards of the first k names
RECURSIVE cards_upto(_, _)
cards_upto(agg, k) ==
  IF k = 0 THEN <<>> ELSE cards_upto(agg, k - 1) \o cards_of(agg[k])

\* singles counted as a unit per name, whatever its parity
RECURSIVE total_doubles(_, _)
total_doubles(agg, k) ==
  IF k = 0 THEN IntZero
  ELSE CHOOSE total \in
         {Plus(before, IF ~Positive(agg[k].carry_out) THEN IntZero
                       ELSE floordiv2(agg[k].carry_out)) :
            before \in {total_doubles(agg, k - 1)}} : TRUE

RECURSIVE total_singles(_, _)
total_singles(agg, k) ==
  IF k = 0 THEN IntZero
  ELSE CHOOSE total \in
         {Plus(before, IF ~Positive(agg[k].carry_out) THEN IntZero
                       ELSE mod2(agg[k].carry_out)) :
            before \in {total_singles(agg, k - 1)}} : TRUE

\* the pack-summary card, when a total is non-zero
pack_summary(agg) ==
  LET d == total_doubles(agg, Len(agg))
      s == total_singles(agg, Len(agg))
  IN IF d # IntZero \/ s # IntZero
     THEN <<LabelCard(PackSummaryName, None, Some(d), Some(s))>>
     ELSE <<>>

label_cards_of(agg) == cards_upto(agg, Len(agg)) \o pack_summary(agg)

\* the summary lists every name, also one without dine-in
dine_summary_unfiltered(agg) ==
  [i \in 1..Len(agg) |-> [name |-> agg[i].name, count |-> agg[i].dine_in]]

\* (name, dine_in) of the names with dine_in > 0, in aggregate order
dine_summary_of(agg) ==
  LET pos == SelectSeq(agg, LAMBDA o : Positive(o.dine_in))
  IN [i \in 1..Len(pos) |-> [name |-> pos[i].name, count |-> pos[i].dine_in]]

\* what _prepare_label_cards returns for the aggregate agg
\* the column operations on the kept rows, the aggregation and the two
\* loops; nothing is left when an exception e is raised
outcome(columns, kept) ==
  CHOOSE p \in
    {IF e # NoError
     THEN [error |-> e, aggregated |-> <<>>, cards |-> <<>>, summary |-> <<>>]
     ELSE CHOOSE q \in
            {[error |-> NoError, aggregated |-> agg,
              cards |-> label_cards_of(agg), summary |-> dine_summary_of(agg)] :
               agg \in {aggregate(coerced(kept))}} : TRUE :
       e \in {prepare_error(columns, kept)}} : TRUE

\* _prepare_label_cards after a successful rename: the exception raised, or
\* the aggregate, the cards and the dine-in summary
prepare(columns, rows) ==
  CHOOSE p \in {outcome(columns, kept) : kept \in {named(columns, rows)}} : TRUE

\* ------------------------------------------------------------- input tables
\* headers a workbook may carry: aliases in several spellings and with
\* blanks around them, an unknown header, and a header spelled like a
\* canonical field
HeaderPool ==
  { <<"n","a","m","e">>,
    <<" ","N","a","m","e">>,
    <<"C","u","s","t","o","m","e","r">>,
    <<"C","a","r","r","y"," ","O","u","t">>,
    <<"c","a","r","r","y","o","u","t">>,
    <<"D","i","n","e","-","I","n">>,
    <<"D","I","N","E","I","N","\f">>,
    <<"n","o","t","e","s">>,
    <<"d","i","n","e","_","i","n">> }

\* read_excel makes column labels distinct
HeaderLists ==
  {h \in UNION {[1..k -> HeaderPool] : k \in 0..MaxCols} :
     \A i, j \in 1..Len(h) : h[i] = h[j] => i = j}

\* one row whose cell in column j is the digit j
DigitRow(k) == [j \in 1..k |-> <<Digits[j + 1]>>]

SchemaTables == {[headers |-> h, rows |-> <<DigitRow(Len(h))>>] : h \in HeaderLists}

OrderHeaders ==
  << <<"N","a","m","e">>,
     <<"C","a","r","r","y","-","O","u","t">>,
     <<"D","i","n","e"," ","I","n">> >>

RowPool == {<<n, c, d>> : n \in NamePool, c \in CarryPool, d \in DinePool}

OrderTables ==
  {[headers |-> OrderHeaders, rows |-> r] :
     r \in UNION {[1..k -> RowPool] : k \in 1..MaxRows}}

\* n names N01, N02, ... listed last name first, each with carry-out c
ScenarioName(i) == <<"N", Digits[(i \div 10) + 1], Digits[(i % 10) + 1]>>
ScenarioRows(n, c) ==
  [r \in 1..n |->
     <<ScenarioName(n + 1 - r), <<Digits[c + 1]>>, <<Digits[((n + 1 - r) % 3) + 1]>>>>]

ScenarioTables ==
  {[headers |-> OrderHeaders, rows |-> ScenarioRows(n, c)] :
     n \in 1..MaxScenarioNames, c \in 0..MaxScenarioCarry}

\* one or two orders of one name whose dine-in is at a limit
LimitTables ==
  {[headers |-> OrderHeaders, rows |-> << << <<"A","l">>, <<"1">>, d >> >>] :
     d \in LimitPool}
  \cup {[headers |-> OrderHeaders,
         rows |-> << << <<"A","l">>, <<"1">>, d >>, << <<"A","l">>, <<"1">>, e >> >>] :
          d \in LimitPool, e \in LimitPool}

\* two orders of one name whose carry-out sums to 2^63, alone and beside
\* an order of another name
OverflowRows ==
  << << <<"A","l">>, Int64Max, <<"0">> >>, << <<"A","l">>, <<"1">>, <<"0">> >> >>
OverflowTables ==
  { [headers |-> OrderHeaders, rows |-> OverflowRows],
    [headers |-> OrderHeaders,
     rows |-> Append(OverflowRows, << <<"B","o">>, <<"1">>, <<"0">> >>)] }

Tables ==
  SchemaTables \cup OrderTables \cup ScenarioTables \cup LimitTables
  \cup OverflowTables

\* -------------------------------------------------------------------- state
VARIABLES
  headers,          \* column labels of the uploaded frame
  rows,             \* its rows, one text cell per column
  pc,               \* position in build_labels_pdf
  error,            \* the exception that left build_labels_pdf, if any
  columns,          \* column labels after the rename
  aggregated,       \* the sorted aggregate
  label_cards,      \* the card sequence
  dine_in_summary,  \* the dine-in entries
  label_index,      \* index of the next card to draw
  labels_drawn,     \* a card has been drawn
  pages,            \* the pages closed by showPage, in order
  page,             \* what is drawn on the open page
  returned          \* the buffer was returned to the caller

vars ==
  <<headers, rows, pc, error, columns, aggregated, label_cards,
    dine_in_summary, label_index, labels_drawn, pages, page, returned,
    cast_overflow>>

\* both conversions, for a table with a cell whose double is beyond int64
CastOutcomes(t) ==
  IF \E r \in 1..Len(t.rows) : \E j \in 1..Len(t.rows[r]) :
       cell_of(t.rows[r][j]).kind = "number" /\ ~Fits(cell_of(t.rows[r][j]))
  THEN {"min", "max"}
  ELSE {"min"}

EmptyPage == [labels |-> <<>>, summary |-> None]

Init ==
  /\ \E t \in Tables :
       /\ headers = t.headers
       /\ rows = t.rows
       /\ cast_overflow \in CastOutcomes(t)
  /\ pc = "normalize"
  /\ error = NoError
  /\ columns = <<>>
  /\ aggregated = <<>>
  /\ label_cards = <<>>
  /\ dine_in_summary = <<>>
  /\ label_index = 0
  /\ labels_drawn = FALSE
  /\ pages = <<>>
  /\ page = EmptyPage
  /\ returned = FALSE

\* ------------------------------------------------------------------ actions
\* _normalize_orders_dataframe, called first by _prepare_label_cards
Normalize ==
  /\ pc = "normalize"
  /\ IF missing(headers) # <<>>
     THEN /\ pc' = "raised"
          /\ error' = ValueError(missing(headers))
          /\ columns' = columns
     ELSE /\ pc' = "prepare"
          /\ error' = error
          /\ columns' = rename(headers)
  /\ UNCHANGED <<headers, rows, aggregated, label_cards, dine_in_summary,
                 label_index, labels_drawn, pages, page, returned,
                 cast_overflow>>

\* the rest of _prepare_label_cards
PrepareLabelCards ==
  /\ pc = "prepare"
  /\ \E p \in {prepare(columns, rows)} :
       IF p.error # NoError
       THEN /\ pc' = "raised"
            /\ error' = p.error
            /\ UNCHANGED <<aggregated, label_cards, dine_in_summary>>
       ELSE /\ pc' = "draw"
            /\ error' = error
            /\ aggregated' = p.aggregated
            /\ label_cards' = p.cards
            /\ dine_in_summary' = p.summary
  /\ UNCHANGED <<headers, rows, columns, label_index, labels_drawn, pages,
                 page, returned, cast_overflow>>

labels_per_page == LABEL_COLUMNS * LABEL_ROWS

\* position without the wrap at the page size
position_unwrapped(i) == i

position_of(i) == i % labels_per_page

column_index_of(position) == position % LABEL_COLUMNS

row_index_of(position) == position \div LABEL_COLUMNS

\* a break before every card that starts a row
page_break_every_row(i, position) == i # 0 /\ position % LABEL_COLUMNS = 0

\* "if label_index and position == 0"
page_break(i, position) == i # 0 /\ position = 0

\* one pass of the drawing loop
DrawLabelCard ==
  /\ pc = "draw"
  /\ label_index < Len(label_cards)
  /\ LET position == position_of(label_index)
         break == page_break(label_index, position)
         drawn == [index |-> label_index,
                   column |-> column_index_of(position),
                   row |-> row_index_of(position),
                   card |-> label_cards[label_index + 1]]
         open == IF break THEN EmptyPage ELSE page
     IN /\ pages' = IF break THEN Append(pages, page) ELSE pages
        /\ page' = [open EXCEPT !.labels = Append(@, drawn)]
  /\ label_index' = label_index + 1
  /\ labels_drawn' = TRUE
  /\ UNCHANGED <<headers, rows, pc, error, columns, aggregated, label_cards,
                 dine_in_summary, returned, cast_overflow>>

\* the last label page is left open
close_never(drawn) == FALSE

\* "if labels_drawn: pdf.showPage()"
close_labels(drawn) == drawn

\* the end of the loop
CloseLabelPages ==
  /\ pc = "draw"
  /\ label_index = Len(label_cards)
  /\ IF close_labels(labels_drawn)
     THEN pages' = Append(pages, page) /\ page' = EmptyPage
     ELSE UNCHANGED <<pages, page>>
  /\ pc' = "summary"
  /\ UNCHANGED <<headers, rows, error, columns, aggregated, label_cards,
                 dine_in_summary, label_index, labels_drawn, returned,
                 cast_overflow>>

SummaryTitle ==
  <<"D","i","n","e","-","I","n"," ","S","u","m","m","a","r","y">>
NoOrdersText ==
  <<"N","o"," ","d","i","n","e","-","i","n"," ","o","r","d","e","r","s",".">>
TableHeader == << <<"N","a","m","e">>, <<"N","u","m","b","e","r">> >>

\* what draw_dine_in_summary puts on the open page
summary_content(entries) ==
  [title |-> SummaryTitle,
   text |-> IF entries = <<>> THEN NoOrdersText ELSE <<>>,
   table |-> IF entries = <<>> THEN <<>>
             ELSE <<TableHeader>>
                  \o [i \in 1..Len(entries) |->
                        <<entries[i].name, str(entries[i].count)>>]]

DrawDineInSummary ==
  /\ pc = "summary"
  /\ page' = [page EXCEPT !.summary = Some(summary_content(dine_in_summary))]
  /\ pc' = "save"
  /\ UNCHANGED <<headers, rows, error, columns, aggregated, label_cards,
                 dine_in_summary, label_index, labels_drawn, pages, returned,
                 cast_overflow>>

\* pdf.save() closes the open page when something is drawn on it; the buffer
\* is then returned
Save ==
  /\ pc = "save"
  /\ IF page # EmptyPage
     THEN pages' = Append(pages, page) /\ page' = EmptyPage
     ELSE UNCHANGED <<pages, page>>
  /\ returned' = TRUE
  /\ pc' = "done"
  /\ UNCHANGED <<headers, rows, error, columns, aggregated, label_cards,
                 dine_in_summary, label_index, labels_drawn, cast_overflow>>

Next ==
  \/ Normalize
  \/ PrepareLabelCards
  \/ DrawLabelCard
  \/ CloseLabelPages
  \/ DrawDineInSummary
  \/ Save

Spec == Init /\ [][Next]_vars

\* ------------------------------------------------------------------ claims
RECURSIVE SumSeq(_)
SumSeq(q) == IF q = <<>> THEN 0 ELSE q[1] + SumSeq(Tail(q))

\* the exact sum of the integers q[1] .. q[k]
RECURSIVE SumUpto(_, _)
SumUpto(q, k) ==
  IF k = 0 THEN IntZero
  ELSE CHOOSE total \in {Plus(before, q[k]) : before \in {SumUpto(q, k - 1)}} : TRUE

SumSigned(q) == SumUpto(q, Len(q))

\* _prepare_label_cards has returned
Prepared == pc \in {"draw", "summary", "save", "done"}

\* the closed pages followed by the open one
AllPages == Append(pages, page)

\* positions in the card sequence of the cards of a name (the pack-summary
\* card is no card of a name)
CardsOfName(n) ==
  {k \in 1..Len(label_cards) :
     label_cards[k].name = n /\ label_cards[k].doubles = None}

\* C1: every aggregated order with carry_out = c > 0 has exactly ceil(c / 2)
\* cards, consecutive in the sequence: first one primary card with count = c,
\* then continuation cards with count = None; an order with carry_out = 0 has
\* no card.
C1_CardsPerName ==
  Prepared =>
    \A i \in 1..Len(aggregated) :
      LET c == aggregated[i].carry_out
          ks == CardsOfName(aggregated[i].name)
      IN IF c = IntZero THEN ks = {}
         ELSE Positive(c) =>
              /\ Small(Cardinality(ks)) = Plus(floordiv2(c), mod2(c))
              /\ \E first \in ks :
                   /\ ks = first..(first + Cardinality(ks) - 1)
                   /\ label_cards[first].count = Some(c)
                   /\ \A k \in ks \ {first} : label_cards[k].count = None

C1_Witness ==
  /\ pc = "done"
  /\ \E i, j \in 1..Len(aggregated) :
       /\ aggregated[i].carry_out = Small(3)
       /\ Cardinality(CardsOfName(aggregated[i].name)) = 2
       /\ aggregated[j].carry_out = IntZero

\* C2: when some aggregated carry_out is positive the sequence ends with the
\* only pack-summary card, whose doubles and singles are the sums over all
\* names of carry_out div 2 and carry_out mod 2, so 2 * doubles + singles is
\* the sum of all carry_out; when every carry_out is 0 the sequence is empty.
C2_PackSummary ==
  Prepared =>
    LET n == Len(aggregated)
        carry == [i \in 1..n |-> aggregated[i].carry_out]
        packs == {k \in 1..Len(label_cards) : label_cards[k].doubles # None}
    IN IF \E i \in 1..n : Positive(carry[i])
       THEN /\ packs = {Len(label_cards)}
            /\ LET last == label_cards[Len(label_cards)]
               IN /\ last.name = PackSummaryName
                  /\ last.count = None
                  /\ last.doubles = Some(SumSigned([i \in 1..n |-> floordiv2(carry[i])]))
                  /\ last.singles = Some(SumSigned([i \in 1..n |-> mod2(carry[i])]))
                  /\ Plus(Plus(last.doubles[1], last.doubles[1]), last.singles[1])
                       = SumSigned(carry)
       ELSE (\A i \in 1..n : carry[i] = IntZero) => label_cards = <<>>

\* C3: the card at index i (the pack-summary card included) is drawn in
\* column (i mod 30) mod 3 and row (i mod 30) div 3, and a page is started
\* before it exactly when i is a positive multiple of 30: card i is on page
\* i div 30, counted from 0.
C3_GridPlacement ==
  \A p \in 1..Len(AllPages) :
    \A k \in 1..Len(AllPages[p].labels) :
      LET d == AllPages[p].labels[k]
      IN /\ d.card = label_cards[d.index + 1]
         /\ d.column = (d.index % 30) % 3
         /\ d.row = (d.index % 30) \div 3
         /\ p - 1 = d.index \div 30
         /\ k - 1 = d.index % 30

C3_Witness ==
  /\ pc = "done"
  /\ Len(aggregated) = 31
  /\ \A i \in 1..31 : aggregated[i].carry_out = Small(1)
  /\ Len(label_cards) = 32
  /\ Len(pages[1].labels) = 30
  /\ Len(pages[2].labels) = 2
  /\ pages[2].labels[2].card.name = PackSummaryName

\* C4: a returned document is ceil(n / 30) label pages, n the number of
\* cards, followed by exactly one summary page, and at no moment does a page
\* hold both label cards and summary content.
C4_LabelPagesThenSummary ==
  /\ \A p \in 1..Len(AllPages) :
       AllPages[p].labels = <<>> \/ AllPages[p].summary = None
  /\ pc = "done" =>
       LET N == (Len(label_cards) + 29) \div 30
       IN /\ returned
          /\ Len(pages) = N + 1
          /\ \A p \in 1..N :
               pages[p].labels # <<>> /\ pages[p].summary = None
          /\ pages[N + 1].labels = <<>>
          /\ pages[N + 1].summary = Some(summary_content(dine_in_summary))

C4_Witness ==
  /\ pc = "done"
  /\ Len(pages) = 3
  /\ pages[2].labels # <<>>
  /\ pages[3].summary # None

\* a header whose trimmed, lowercased text is an alias of field f
Matches(h, f) ==
  \E k \in 1..Len(column_aliases) :
    column_aliases[k].field = f /\ column_aliases[k].alias = lower(strip(h))

Unmatched ==
  SelectSeq(RequiredFields,
            LAMBDA f : ~ \E i \in 1..Len(headers) : Matches(headers[i], f))

\* C5: when some canonical field has no alias among the headers, the run
\* ends with the one error that names every such field, before any aggregate,
\* card or page exists, and nothing is returned; when every field has an
\* alias match, that error is not raised.
C5_SchemaError ==
  IF Unmatched # <<>>
  THEN \/ pc = "normalize"
       \/ /\ pc = "raised"
          /\ error = ValueError(Unmatched)
          /\ aggregated = <<>> /\ label_cards = <<>> /\ dine_in_summary = <<>>
          /\ pages = <<>> /\ page = EmptyPage
          /\ ~returned
  ELSE error.type # "ValueError"

C5_Witness ==
  /\ pc = "raised"
  /\ Len(headers) >= 2
  /\ error.type = "ValueError"
  /\ error.missing = <<S_carry_out, S_dine_in>>

\* each canonical label is carried by one column
CanonicalRows ==
  /\ pc \notin {"normalize"}
  /\ Unmatched = <<>>
  /\ \A i \in 1..Len(RequiredFields) :
       Cardinality(Labelled(columns, RequiredFields[i])) = 1

\* C6: for canonical rows the aggregator never raises, and the aggregate has
\* one entry per distinct non-empty trimmed name, in ascending name order,
\* whose quantities are the sums of the coerced row values (unparsable is 0,
\* negative is 0), hence never negative.
C6_AggregatorTotal ==
  CanonicalRows =>
    /\ pc # "raised"
    /\ Prepared =>
         LET rs == coerced(named(columns, rows))
             sum(n, q) ==
               SumSigned([r \in 1..Len(rs) |->
                            IF rs[r].name = n
                            THEN (IF q = "carry_out" THEN rs[r].carry_out
                                  ELSE rs[r].dine_in)
                            ELSE IntZero])
         IN /\ {aggregated[i].name : i \in 1..Len(aggregated)}
                 = {strip(rows[r][Col(columns, S_name)]) : r \in 1..Len(rows)}
                     \ {<<>>}
            /\ \A i, j \in 1..Len(aggregated) :
                 i < j => StrLess(aggregated[i].name, aggregated[j].name)
            /\ \A i \in 1..Len(aggregated) :
                 /\ aggregated[i].carry_out = sum(aggregated[i].name, "carry_out")
                 /\ aggregated[i].dine_in = sum(aggregated[i].name, "dine_in")
                 /\ ~aggregated[i].carry_out.neg
                 /\ ~aggregated[i].dine_in.neg

\* C7: the dine-in summary has exactly one entry (name, dine_in) for each
\* aggregated name with dine_in > 0 and none for a name with dine_in = 0,
\* whatever the carry_out, in ascending name order.
C7_DineSummary ==
  Prepared =>
    /\ \A i \in 1..Len(aggregated) :
         Cardinality({k \in 1..Len(dine_in_summary) :
                        dine_in_summary[k].name = aggregated[i].name})
           = IF Positive(aggregated[i].dine_in) THEN 1 ELSE 0
    /\ \A k \in 1..Len(dine_in_summary) :
         \E i \in 1..Len(aggregated) :
           /\ aggregated[i].name = dine_in_summary[k].name
           /\ aggregated[i].dine_in = dine_in_summary[k].count
    /\ \A k, l \in 1..Len(dine_in_summary) :
         k < l => StrLess(dine_in_summary[k].name, dine_in_summary[l].name)

C7_Witness ==
  /\ pc = "done"
  /\ \E i, j \in 1..Len(aggregated) :
       /\ aggregated[i].carry_out = IntZero /\ Positive(aggregated[i].dine_in)
       /\ Positive(aggregated[j].carry_out) /\ aggregated[j].dine_in = IntZero
       /\ \E k \in 1..Len(dine_in_summary) :
            dine_in_summary[k].name = aggregated[i].name
       /\ \A k \in 1..Len(dine_in_summary) :
            dine_in_summary[k].name # aggregated[j].name

\* the rows with two neighbours exchanged, and the rows last to first
Reordered(rs) ==
  {[r \in 1..Len(rs) |->
      IF r = i THEN rs[i + 1] ELSE IF r = i + 1 THEN rs[i] ELSE rs[r]] :
     i \in 1..(Len(rs) - 1)}
  \cup {[r \in 1..Len(rs) |-> rs[Len(rs) + 1 - r]]}

\* C8: cards are grouped by name in ascending name order, and a table with
\* the same rows in another order gives the same outcome: the same cards and
\* the same dine-in summary.
C8_RowOrder ==
  /\ Prepared =>
       \A k \in 1..(Len(label_cards) - 1) :
         label_cards[k + 1].doubles = None =>
           \/ label_cards[k].name = label_cards[k + 1].name
           \/ StrLess(label_cards[k].name, label_cards[k + 1].name)
  /\ (pc = "draw" /\ label_index = 0) =>
       \A other \in Reordered(rows) :
         prepare(columns, other)
           = [error |-> NoError, aggregated |-> aggregated,
              cards |-> label_cards, summary |-> dine_in_summary]

C8_Witness ==
  /\ pc = "draw" /\ label_index = 0
  /\ Len(rows) = 2
  /\ StrLess(strip(rows[2][1]), strip(rows[1][1]))
  /\ Len(aggregated) = 2
  /\ aggregated[1].carry_out = Small(3) /\ aggregated[2].carry_out = Small(2)
  /\ aggregated[1].dine_in = Small(2)

\* C9: when every canonical field has an alias match, each field is read
\* from one matching column and no other column has any effect: the outcome
\* is that of the table cut down to three matching columns.
C9_OtherColumnsIgnored ==
  (Unmatched = <<>> /\ pc \notin {"normalize", "prepare"}) =>
    \E n, c, d \in 1..Len(headers) :
      /\ Matches(headers[n], S_name)
      /\ Matches(headers[c], S_carry_out)
      /\ Matches(headers[d], S_dine_in)
      /\ prepare(RequiredFields,
                 [r \in 1..Len(rows) |-> <<rows[r][n], rows[r][c], rows[r][d]>>])
           = [error |-> error, aggregated |-> aggregated,
              cards |-> label_cards, summary |-> dine_in_summary]

\* C10: no two cards share a cell of a page, every column is in 0..2 and every
\* row in 0..9, a page closed during the loop holds exactly 30 cards, and
\* after the loop every label page but the last holds 30 cards and the last
\* between 1 and 30.
C10_CellsAndPages ==
  /\ \A p \in 1..Len(AllPages) :
       LET ls == AllPages[p].labels
       IN /\ \A k \in 1..Len(ls) : ls[k].column \in 0..2 /\ ls[k].row \in 0..9
          /\ \A k, l \in 1..Len(ls) :
               (ls[k].column = ls[l].column /\ ls[k].row = ls[l].row) => k = l
          /\ Len(ls) <= 30
  /\ pc = "draw" => \A p \in 1..Len(pages) : Len(pages[p].labels) = 30
  /\ pc \in {"summary", "save", "done"} =>
       LET lp == SelectSeq(pages, LAMBDA q : q.summary = None)
       IN /\ SumSeq([p \in 1..Len(lp) |-> Len(lp[p].labels)]) = Len(label_cards)
          /\ \A p \in 1..Len(lp) :
               /\ Len(lp[p].labels) \in 1..30
               /\ p < Len(lp) => Len(lp[p].labels) = 30

C10_Witness ==
  /\ pc = "done"
  /\ Len(label_cards) = 30
  /\ Len(pages) = 2
  /\ Len(pages[1].labels) = 30
  /\ pages[2].labels = <<>>

====
